---- MODULE Spec2Model ----
(***************************************************************************)
(* NewsAggregator: the ingest and enrich pipelines (app/ingest/pipeline.py, *)
(* app/ingest/enrich.py), the three feed collectors they drive and the     *)
(* SQLAlchemy session they write through.                                  *)
(*                                                                         *)
(* A run (run_ingest / run_enrich) is a process with a program counter; it *)
(* owns one session.  The tables hold what is committed; a session holds   *)
(* the rows it has add()ed and not yet flushed.  Network collaborators     *)
(* (feeds, resolver, transcript and markdown fetch) are the environment.   *)
(***************************************************************************)
EXTENDS Integers, Sequences, FiniteSets, TLC

\* ------------------------------------------------------------------ values

\* Python None for string-valued fields.
None == "none"
\* A missing timestamp (None) and a timestamp string dateutil cannot parse.
NoTime == 0 - 1
BadTime == 0 - 2
\* "no cap" for the optional max_* arguments (None).
NoCap == 0 - 1

\* Bounds of the model: the entries of one feed, and the in-window items the
\* feeds carry during one run (all feeds together).
MaxFeedLen == 2
MaxItems == 2

\* The processes that may run the pipeline (one CLI invocation each).
Runs == {"A", "B"}

\* lookback_hours values a run is started with.
Lookbacks == {1}

\* Publish times an entry can carry (hours).  The clock reads 2, so with a
\* lookback of 1 hour time 0 is before the cutoff and time 1 is inside the window.
EntryTimes == {0, 1}

\* Links carried by feed-a / feed-b entries.
FeedUrls == {"u1"}
\* Links carried by channel feeds; "w1" and "w1s" are two URL shapes of the same
\* video, "x0" is a link no video id can be extracted from.
YtUrls == {"w1", "w1s", "x0"}
VideoIds == {"v1"}
\* Watched channel references: a canonical id and the handle of the same channel.
ChannelInputs == {"UCx", "@h"}

Range(s) == {s[i] : i \in DOMAIN s}

SeqsUpTo(S, n) == UNION {[1..k -> S] : k \in 0..n}

\* ------------------------------------------------------------------ tables

\* app/models.py Article (plus the columns enrich.py and crud.py use).
Article(source_type, source, title, url, published_at, summary, raw_content) ==
    [source_type |-> source_type, source |-> source, title |-> title, url |-> url,
     video_id |-> None, published_at |-> published_at, summary |-> summary,
     raw_content |-> raw_content, content_type |-> None, content_error |-> None,
     content_fetched_at |-> NoTime]

\* The three default feeds of AnthropicScraper.
DEFAULT_ANTHROPIC_FEEDS == <<"news", "engineering", "research">>

VARIABLES
    articles,           \* table articles: the committed rows
    youtube_channels,   \* table youtube_channels: the committed rows
    now,                \* the clock (datetime.now), in hours
    world,              \* the environment: free, or fixed answers of the remote feeds
    pc,                 \* pc[r]: where run r is
    kind,               \* kind[r]: "ingest" or "enrich"
    lookback_hours,     \* lookback_hours[r]
    fetch_markdown,     \* fetch_markdown[r]
    max_items,          \* max_items[r] (run_enrich)
    new,                \* new[r]: rows add()ed to r's session, not flushed (session.new)
    dirty,              \* dirty[r]: loaded rows r's session has modified (session.dirty)
    inserted,           \* inserted[r]: the counter of run_ingest
    updated,            \* updated[r]: the counter of run_enrich
    todo,               \* todo[r]: the channel inputs being collected / the feed urls still to fetch
    results,            \* results[r]: ChannelResults of collect_latest_videos
    collected,          \* collected[r]: articles list of collect_recent_articles
    run_cutoff,         \* run_cutoff[r]: the cutoff of the collector that is running
    outcome,            \* outcome[r]: "none", "committed" or "raised" (how the run ended)
    run_exc,            \* run_exc[r]: the exception that ended the run, or None
    before,             \* before[r]: the articles table when r began (history)
    served,             \* served[r]: the in-window items the feeds carried so far (history)
    last_fetch,         \* last_fetch[r]: the source of r's last index fetch and its fault (history)
    call,               \* the last call of one function on its own: name, arguments, result
    session             \* session[r]: whether r holds its session, and the commits and rollbacks on it

vars == <<articles, youtube_channels, now, world, pc, kind, lookback_hours,
          fetch_markdown, max_items, new, dirty, inserted, updated, todo, results,
          collected, run_cutoff, outcome, run_exc, before, served,
          last_fetch, call, session>>


\* ------------------------------------------------------------- environment

\* What a feed-a / feed-b index can serve: entries with a link, a title, a
\* description and the two alternate timestamp fields.
FeedEntries ==
    [link : FeedUrls, title : {"t"}, description : {"d"},
     published : {BadTime} \cup EntryTimes, updated : {NoTime}]

\* What a channel feed can serve.  The platform's own video-id field is present on
\* the canonical link only.
YtEntries ==
    {[link |-> l, yt_videoid |-> (IF l = "w1" THEN "v1" ELSE None), title |-> "t",
      published |-> p, updated |-> NoTime] : l \in YtUrls, p \in {BadTime} \cup EntryTimes}

\* The answer of one feed fetch: a transport error, or the parsed entries.
FetchError == [ok |-> FALSE, entries |-> <<>>]
Fetched(entries) == [ok |-> TRUE, entries |-> entries]
FeedOutcomes == {FetchError} \cup {Fetched(es) : es \in SeqsUpTo(FeedEntries, MaxFeedLen)}
\* feedparser.parse(feed_url) fetches the channel feed itself: a failed fetch
\* either raises (FetchError) or comes back as a feed without entries.
YtFeedOutcomes == {FetchError} \cup {Fetched(es) : es \in SeqsUpTo(YtEntries, MaxFeedLen)}

\* The answer of get_video_transcript: (text, error).
NoTranscript == [text |-> None, error |-> None]
TranscriptOutcomes ==
    {[text |-> "transcript", error |-> None],
     [text |-> None, error |-> "no transcript"],
     NoTranscript}

\* The answer of the document converter: markdown, or a failure (None here).
MarkdownOutcomes == {"markdown", None}

\* The answer of the network strategies of resolve_channel_id for a handle.
ResolveError == "ResolveError"
ResolveOutcomes == {"UCx", ResolveError}

\* The free environment: every call may be answered in any way.
FreeWorld == [fixed |-> FALSE]

\* What each call is answered with.
OpenaiFeedEnv == IF world.fixed THEN {world.openai} ELSE FeedOutcomes
AnthropicFeedEnv(feed_url) == IF world.fixed THEN {world.anthropic[feed_url]} ELSE FeedOutcomes
YtFeedEnv == IF world.fixed THEN {world.youtube} ELSE YtFeedOutcomes
\* The free environment carries at most MaxItems in-window items during one run:
\* may a feed carry n more when k were carried already.
WithinItems(k, n) == world.fixed \/ k + n <= MaxItems
ResolveEnv == IF world.fixed THEN {world.resolve} ELSE ResolveOutcomes
TranscriptEnv == IF world.fixed THEN {world.transcript} ELSE [VideoIds -> TranscriptOutcomes]
MarkdownEnv == IF world.fixed THEN {world.markdown} ELSE [FeedUrls -> MarkdownOutcomes]

\* Feed indices that do not change between calls and fetch without error: every
\* feed serves the same in-window, well-dated entries whenever it is asked, every
\* channel feed is the feed of the one channel "UCx", and the resolver, the
\* transcript service and the converter answer the same way every time.
SteadyEntries(entries) == {e \in entries : e.published = 1}
SteadyItems(w) ==
    Len(w.openai.entries) + Len(w.youtube.entries)
        + Len(w.anthropic["news"].entries) + Len(w.anthropic["engineering"].entries)
        + Len(w.anthropic["research"].entries)
SteadyFeeds == {Fetched(es) : es \in SeqsUpTo(SteadyEntries(FeedEntries), MaxFeedLen)}
SteadyWorlds ==
    {w \in [fixed : {TRUE},
            openai : SteadyFeeds,
            anthropic : [Range(DEFAULT_ANTHROPIC_FEEDS) -> SteadyFeeds],
            youtube : {Fetched(es) : es \in SeqsUpTo(SteadyEntries(YtEntries), MaxFeedLen)},
            resolve : ResolveOutcomes,
            transcript : [VideoIds -> TranscriptOutcomes],
            markdown : [FeedUrls -> MarkdownOutcomes]] : SteadyItems(w) <= MaxItems}
\* The steady worlds two concurrent runs are checked against: one item at most.
RaceWorlds == {w \in SteadyWorlds : SteadyItems(w) <= 1}

\* ------------------------------------------------------------- collectors

\* parse_entry_datetime: the raw timestamp, published or else updated.
EntryTimestamp(entry) ==
    IF entry.published # NoTime THEN entry.published ELSE entry.updated

\* date_parser.parse raises on a string it cannot parse.
ParseRaises(entry) == EntryTimestamp(entry) = BadTime

\* What goes wrong when an index is fetched and every entry of it is read.
FeedFault(feed) ==
    IF ~feed.ok THEN "TransportError"
    ELSE IF \E i \in DOMAIN feed.entries : ParseRaises(feed.entries[i]) THEN "ParserError"
    ELSE None

Raised(items) == [raised |-> TRUE, items |-> items]
Returned(items) == [raised |-> FALSE, items |-> items]

\* OpenAINewsScraper.collect_recent_articles, the loop over feed.entries.
RECURSIVE OpenaiEntries(_, _, _, _)
OpenaiEntries(entries, cutoff, max_articles, acc) ==
    IF entries = <<>> THEN Returned(acc)
    ELSE LET entry == Head(entries)
             published_at == EntryTimestamp(entry)
             article == [title |-> entry.title, url |-> entry.link,
                         published_at |-> published_at, summary |-> entry.description]
             acc2 == Append(acc, article)
         IN  IF ParseRaises(entry) THEN Raised(acc)
             ELSE IF published_at = NoTime \/ published_at < cutoff
                  THEN OpenaiEntries(Tail(entries), cutoff, max_articles, acc)
             ELSE IF max_articles # NoCap /\ Len(acc2) >= max_articles THEN Returned(acc2)
             ELSE OpenaiEntries(Tail(entries), cutoff, max_articles, acc2)

\* A collector that reads whatever fetch_feed got, failed or not.
OpenaiCollectLenient(feed, cutoff, max_articles) ==
    OpenaiEntries(feed.entries, cutoff, max_articles, <<>>)

\* OpenAINewsScraper.collect_recent_articles on the answer of fetch_feed.
OpenaiCollect(feed, cutoff, max_articles) ==
    IF ~feed.ok THEN Raised(<<>>) ELSE OpenaiEntries(feed.entries, cutoff, max_articles, <<>>)

\* AnthropicScraper.collect_recent_articles, the loop over one feed's entries;
\* acc is the articles list, per_feed_count counts this feed's articles.
RECURSIVE AnthropicEntries(_, _, _, _, _, _)
AnthropicEntries(entries, feed_url, cutoff, max_articles_per_feed, per_feed_count, acc) ==
    IF entries = <<>> THEN Returned(acc)
    ELSE LET entry == Head(entries)
             published_at == EntryTimestamp(entry)
             article == [title |-> entry.title, url |-> entry.link,
                         published_at |-> published_at, summary |-> entry.description,
                         feed_url |-> feed_url]
             acc2 == Append(acc, article)
         IN  IF ParseRaises(entry) THEN Raised(acc)
             ELSE IF published_at = NoTime \/ published_at < cutoff
                  THEN AnthropicEntries(Tail(entries), feed_url, cutoff,
                                        max_articles_per_feed, per_feed_count, acc)
             ELSE IF max_articles_per_feed # NoCap /\ per_feed_count + 1 >= max_articles_per_feed
                  THEN Returned(acc2)
             ELSE AnthropicEntries(Tail(entries), feed_url, cutoff,
                                   max_articles_per_feed, per_feed_count + 1, acc2)

\* One iteration of the loop over self.feed_urls: fetch_feed, then the entries.
AnthropicCollectFeed(feed, feed_url, cutoff, max_articles_per_feed, acc) ==
    IF ~feed.ok THEN Raised(acc)
    ELSE AnthropicEntries(feed.entries, feed_url, cutoff, max_articles_per_feed, 0, acc)

\* YouTubeSurfaceScraper.extract_video_id: the v= parameter or a known path shape.
extract_video_id(video_url) ==
    IF video_url \in {"w1", "w1s"} THEN "v1" ELSE None

\* try_extract_channel_id_from_text: the reference is a canonical id already.
try_extract_channel_id_from_text(text) == IF text = "UCx" THEN text ELSE None

\* resolve_channel_id: the direct match, or else what the network strategies find.
resolve_channel_id(channel_input, network) ==
    IF try_extract_channel_id_from_text(channel_input) # None
    THEN try_extract_channel_id_from_text(channel_input)
    ELSE network

\* fetch_recent_videos_from_channel_id, the loop over feed.entries.
RECURSIVE YoutubeEntries(_, _, _, _, _, _, _)
YoutubeEntries(entries, channel_input, channel_id, cutoff_utc, transcripts, max_videos, acc) ==
    IF entries = <<>> THEN Returned(acc)
    ELSE LET entry == Head(entries)
             published_at == EntryTimestamp(entry)
             video_url == entry.link
             video_id == IF entry.yt_videoid # None THEN entry.yt_videoid
                         ELSE extract_video_id(video_url)
             video == [channel_input |-> channel_input, channel_id |-> channel_id,
                       video_id |-> video_id, title |-> entry.title, url |-> video_url,
                       published_at |-> published_at,
                       transcript |-> transcripts[video_id].text,
                       transcript_error |-> transcripts[video_id].error]
             acc2 == Append(acc, video)
         IN  IF ParseRaises(entry) THEN Raised(acc)
             ELSE IF published_at = NoTime \/ published_at < cutoff_utc
                  THEN YoutubeEntries(Tail(entries), channel_input, channel_id, cutoff_utc,
                                      transcripts, max_videos, acc)
             ELSE IF video_id = None
                  THEN YoutubeEntries(Tail(entries), channel_input, channel_id, cutoff_utc,
                                      transcripts, max_videos, acc)
             ELSE IF max_videos # NoCap /\ Len(acc2) >= max_videos THEN Returned(acc2)
             ELSE YoutubeEntries(Tail(entries), channel_input, channel_id, cutoff_utc,
                                 transcripts, max_videos, acc2)

\* One iteration of the loop of collect_latest_videos: resolve, fetch, and the
\* except clause that turns any exception into a result carrying the error.
ChannelResult(channel_input, network, feed, cutoff, transcripts, max_videos_per_channel) ==
    LET channel_id == resolve_channel_id(channel_input, network)
        fetched == YoutubeEntries(feed.entries, channel_input, channel_id, cutoff,
                                  transcripts, max_videos_per_channel, <<>>)
        failed(exc) == [channel_input |-> channel_input, channel_id |-> None,
                        videos |-> <<>>, error |-> exc]
    IN  IF channel_id = ResolveError THEN failed(ResolveError)
        ELSE IF ~feed.ok THEN failed("TransportError")
        ELSE IF fetched.raised THEN failed("ParserError")
        ELSE [channel_input |-> channel_input, channel_id |-> channel_id,
              videos |-> fetched.items, error |-> None]

\* ---------------------------------------------------------------- session

\* SessionLocal = sessionmaker(autoflush=False, ...): a query does not flush the
\* session's pending rows first, so it sees the committed table only.
autoflush == FALSE

\* The rows a SELECT on articles returns in a session holding `pending`.
Visible(table, pending) == IF autoflush THEN table \cup Range(pending) ELSE table

\* select(Article).where(Article.url == url): is there such a row.
FoundByUrl(rows, url) == \E row \in rows : row.url = url

\* An upsert that adds its row without looking the url up.
upsert_article_blind(table, pending, article) ==
    [new |-> Append(pending, article), inserted |-> 1]

\* pipeline.upsert_article: look the url up, add the row when it is not found.
upsert_article(table, pending, article) ==
    IF FoundByUrl(Visible(table, pending), article.url)
    THEN [new |-> pending, inserted |-> 0]
    ELSE [new |-> Append(pending, article), inserted |-> 1]

\* The flush of commit(): one INSERT per pending row; the unique constraint
\* uq_articles_url rejects a url that is in the table or was inserted before it.
FlushFails(table, pending) ==
    \/ \E i \in DOMAIN pending : FoundByUrl(table, pending[i].url)
    \/ \E i, j \in DOMAIN pending : i < j /\ pending[i].url = pending[j].url

\* The table after a commit: the modified rows replaced, the pending rows added.
Committed(table, pending, modified) ==
    {row \in table : ~FoundByUrl(modified, row.url)} \cup modified \cup Range(pending)

\* ----------------------------------------------------------------- ingest

Loop(raised, exc, pending, count) ==
    [raised |-> raised, exc |-> exc, new |-> pending, inserted |-> count]

RECURSIVE Flatten(_)
Flatten(channel_results) ==
    IF channel_results = <<>> THEN <<>>
    ELSE Head(channel_results).videos \o Flatten(Tail(channel_results))

\* ingest_youtube, the loops over results and result.videos.  VideoItem.transcript
\* is the transcript text (a str), so video.transcript.text raises AttributeError
\* whenever a transcript was fetched.
RECURSIVE UpsertVideos(_, _, _, _)
UpsertVideos(videos, table, pending, count) ==
    IF videos = <<>> THEN Loop(FALSE, None, pending, count)
    ELSE LET video == Head(videos)
             up == upsert_article(table, pending,
                       Article("youtube", video.channel_id, video.title, video.url,
                               video.published_at, None, None))
         IN  IF video.transcript # None THEN Loop(TRUE, "AttributeError", pending, count)
             ELSE UpsertVideos(Tail(videos), table, up.new, count + up.inserted)

\* OpenAINewsScraper defines no fetch_article_markdown; AnthropicScraper does.
has_fetch_article_markdown(source_type) == source_type = "anthropic"

\* ingest_openai, the loop over articles.
RECURSIVE UpsertOpenai(_, _, _, _, _)
UpsertOpenai(items, fetch, table, pending, count) ==
    IF items = <<>> THEN Loop(FALSE, None, pending, count)
    ELSE LET article == Head(items)
             up == upsert_article(table, pending,
                       Article("openai", "openai_news", article.title, article.url,
                               article.published_at, article.summary, None))
         IN  IF fetch /\ ~has_fetch_article_markdown("openai")
             THEN Loop(TRUE, "AttributeError", pending, count)
             ELSE UpsertOpenai(Tail(items), fetch, table, up.new, count + up.inserted)

\* ingest_anthropic, the loop over articles; markdown[url] is what the document
\* converter answers for url (None: it raises).
RECURSIVE UpsertAnthropic(_, _, _, _, _, _)
UpsertAnthropic(items, fetch, markdown, table, pending, count) ==
    IF items = <<>> THEN Loop(FALSE, None, pending, count)
    ELSE LET article == Head(items)
             raw_content == IF fetch THEN markdown[article.url] ELSE None
             up == upsert_article(table, pending,
                       Article("anthropic", article.feed_url, article.title, article.url,
                               article.published_at, article.summary, raw_content))
         IN  IF fetch /\ markdown[article.url] = None
             THEN Loop(TRUE, "ConversionError", pending, count)
             ELSE UpsertAnthropic(Tail(items), fetch, markdown, table, up.new,
                                  count + up.inserted)

\* ----------------------------------------------------------------- enrich

Orderings(rows) ==
    {s \in [1..Cardinality(rows) -> rows] :
        /\ \A i, j \in DOMAIN s : i # j => s[i] # s[j]
        /\ \A i, j \in DOMAIN s : i < j => s[i].published_at >= s[j].published_at}

Min(a, b) == IF a < b THEN a ELSE b

\* A selection without the filter on absent content.
select_any_content(table, source_type, cutoff, cap) ==
    LET missing == {row \in table : /\ row.source_type = source_type
                                    /\ row.published_at >= cutoff}
    IN  {IF cap # NoCap /\ cap # 0 THEN SubSeq(s, 1, Min(cap, Len(s))) ELSE s :
            s \in Orderings(missing)}

\* _select_missing_content: the lists the query can return (rows with equal
\* published_at come in any order); "if max_items:" applies the limit only for a
\* cap that is not None and not 0.
select_missing_content(table, source_type, cutoff, cap) ==
    LET missing == {row \in table : /\ row.source_type = source_type
                                    /\ row.raw_content = None
                                    /\ row.published_at >= cutoff}
    IN  {IF cap # NoCap /\ cap # 0 THEN SubSeq(s, 1, Min(cap, Len(s))) ELSE s :
            s \in Orderings(missing)}

\* _enrich_markdown, one iteration: the row as the session holds it afterwards.
enrich_markdown_item(article, markdown, content_type, t) ==
    IF markdown[article.url] # None
    THEN [article EXCEPT !.raw_content = markdown[article.url],
                         !.content_type = content_type,
                         !.content_error = None,
                         !.content_fetched_at = t]
    ELSE [article EXCEPT !.content_error = "ConversionError",
                         !.content_fetched_at = t]

\* An enrichment that passes over an item it is unable to fetch for, leaving no
\* error on it.
enrich_youtube_item_skip(article, transcripts, t) ==
    LET video_id == IF article.video_id # None THEN article.video_id
                    ELSE extract_video_id(article.url)
        with_id == [article EXCEPT !.video_id = video_id]
    IN  IF video_id = None
        THEN article
        ELSE IF transcripts[video_id].error # None
        THEN [with_id EXCEPT !.content_fetched_at = t]
        ELSE IF transcripts[video_id].text # None
        THEN [with_id EXCEPT !.content_error = "AttributeError",
                             !.content_fetched_at = t]
        ELSE [with_id EXCEPT !.raw_content = None,
                             !.content_type = "transcript",
                             !.content_error = None,
                             !.content_fetched_at = t]

\* enrich_youtube_articles, one iteration.  get_video_transcript returns the text
\* itself, so transcript.text raises inside the try and the except clause records it.
enrich_youtube_item(article, transcripts, t) ==
    LET video_id == IF article.video_id # None THEN article.video_id
                    ELSE extract_video_id(article.url)
        with_id == [article EXCEPT !.video_id = video_id]
    IN  IF video_id = None
        THEN [article EXCEPT !.content_error = "Unable to extract video_id from URL.",
                             !.content_fetched_at = t]
        ELSE IF transcripts[video_id].error # None
        THEN [with_id EXCEPT !.content_error = transcripts[video_id].error,
                             !.content_fetched_at = t]
        ELSE IF transcripts[video_id].text # None
        THEN [with_id EXCEPT !.content_error = "AttributeError",
                             !.content_fetched_at = t]
        ELSE [with_id EXCEPT !.raw_content = None,
                             !.content_type = "transcript",
                             !.content_error = None,
                             !.content_fetched_at = t]

\* The source kind an enrich phase works on.
EnrichPhases == {"enrich_openai", "enrich_anthropic", "enrich_youtube"}
PhaseKind(phase) ==
    CASE phase = "enrich_openai" -> "openai"
      [] phase = "enrich_anthropic" -> "anthropic"
      [] OTHER -> "youtube"
NextPhase(phase) ==
    CASE phase = "enrich_openai" -> "enrich_anthropic"
      [] phase = "enrich_anthropic" -> "enrich_youtube"
      [] OTHER -> "commit"

\* enrich_openai_articles / enrich_anthropic_articles / enrich_youtube_articles on
\* the selected items: whether it raises, and the rows it has modified.  The
\* argument scraper.fetch_article_markdown is evaluated before _enrich_markdown is
\* entered, outside its try.
enrich_articles(phase, items, markdown, transcripts, t) ==
    IF phase = "enrich_youtube"
    THEN [raised |-> FALSE, exc |-> None,
          modified |-> {enrich_youtube_item(items[i], transcripts, t) : i \in DOMAIN items}]
    ELSE IF ~has_fetch_article_markdown(PhaseKind(phase))
    THEN [raised |-> TRUE, exc |-> "AttributeError", modified |-> {}]
    ELSE [raised |-> FALSE, exc |-> None,
          modified |-> {enrich_markdown_item(items[i], markdown, "markdown", t) :
                            i \in DOMAIN items}]

\* ------------------------------------------------------------------- runs

\* max_items values run_enrich is started with.
MaxCap == 1
Caps == {NoCap} \cup 0..MaxCap

\* The youtube_channels tables the pipeline starts from (channel_input is
\* unique): every watched channel active, or every one deactivated.
ChannelTables ==
    {{[channel_input |-> c, active |-> a] : c \in ChannelInputs} : a \in BOOLEAN}

Orders(S) ==
    {s \in [1..Cardinality(S) -> S] : \A i, j \in DOMAIN s : i # j => s[i] # s[j]}

\* No function has been called on its own.
NoCall == [fn |-> None]

StartIn(stores, worlds) ==
    /\ articles \in stores
    /\ youtube_channels \in ChannelTables
    /\ now = 2
    /\ world \in worlds
    /\ pc = [r \in Runs |-> "idle"]
    /\ kind = [r \in Runs |-> "ingest"]
    /\ lookback_hours = [r \in Runs |-> 1]
    /\ fetch_markdown = [r \in Runs |-> FALSE]
    /\ max_items = [r \in Runs |-> NoCap]
    /\ new = [r \in Runs |-> <<>>]
    /\ dirty = [r \in Runs |-> {}]
    /\ inserted = [r \in Runs |-> 0]
    /\ updated = [r \in Runs |-> 0]
    /\ todo = [r \in Runs |-> <<>>]
    /\ results = [r \in Runs |-> <<>>]
    /\ collected = [r \in Runs |-> <<>>]
    /\ run_cutoff = [r \in Runs |-> 0]
    /\ outcome = [r \in Runs |-> "none"]
    /\ run_exc = [r \in Runs |-> None]
    /\ before = [r \in Runs |-> {}]
    /\ served = [r \in Runs |-> 0]
    /\ last_fetch = [r \in Runs |-> [source |-> None, fault |-> None]]
    /\ call = NoCall
    /\ session = [r \in Runs |-> [held |-> FALSE, commits |-> 0, rollbacks |-> 0]]

Start(worlds) == StartIn({{}}, worlds)

Init == Start({FreeWorld})

\* run_ingest / run_enrich up to the try: init_db() and SessionLocal().
Begin(r, kinds) ==
    /\ pc[r] = "idle"
    /\ UNCHANGED call
    /\ session' = [session EXCEPT ![r] = [held |-> TRUE, commits |-> 0, rollbacks |-> 0]]
    /\ \E k \in kinds, hours \in Lookbacks, fm \in BOOLEAN, cap \in Caps :
        /\ k = "ingest" => cap = NoCap
        /\ k = "enrich" => fm = FALSE
        /\ kind' = [kind EXCEPT ![r] = k]
        /\ lookback_hours' = [lookback_hours EXCEPT ![r] = hours]
        /\ fetch_markdown' = [fetch_markdown EXCEPT ![r] = fm]
        /\ max_items' = [max_items EXCEPT ![r] = cap]
        /\ pc' = [pc EXCEPT ![r] = IF k = "ingest" THEN "youtube" ELSE "enrich_openai"]
    /\ new' = [new EXCEPT ![r] = <<>>]
    /\ dirty' = [dirty EXCEPT ![r] = {}]
    /\ inserted' = [inserted EXCEPT ![r] = 0]
    /\ updated' = [updated EXCEPT ![r] = 0]
    /\ todo' = [todo EXCEPT ![r] = <<>>]
    /\ results' = [results EXCEPT ![r] = <<>>]
    /\ collected' = [collected EXCEPT ![r] = <<>>]
    /\ outcome' = [outcome EXCEPT ![r] = "none"]
    /\ run_exc' = [run_exc EXCEPT ![r] = None]
    /\ before' = [before EXCEPT ![r] = articles]
    /\ served' = [served EXCEPT ![r] = 0]
    /\ last_fetch' = [last_fetch EXCEPT ![r] = [source |-> None, fault |-> None]]
    /\ UNCHANGED <<articles, youtube_channels, now, world, run_cutoff>>

\* A step of run r inside the try that raises e: control goes to the except clause.
Raise(r, e) ==
    /\ pc' = [pc EXCEPT ![r] = "except"]
    /\ run_exc' = [run_exc EXCEPT ![r] = e]

\* An ingest_youtube whose query leaves out the filter on active.
SelectChannelsAll(r) ==
    /\ pc[r] = "youtube"
    /\ UNCHANGED <<call, session>>
    /\ UNCHANGED last_fetch
    /\ LET channels == youtube_channels
       IN  IF channels = {}
           THEN /\ pc' = [pc EXCEPT ![r] = "openai"]
                /\ UNCHANGED <<todo, run_cutoff>>
           ELSE /\ \E order \in Orders({c.channel_input : c \in channels}) :
                       todo' = [todo EXCEPT ![r] = order]
                /\ run_cutoff' = [run_cutoff EXCEPT ![r] = now - lookback_hours[r]]
                /\ pc' = [pc EXCEPT ![r] = "collect_videos"]
    /\ UNCHANGED <<articles, youtube_channels, now, world, kind, lookback_hours,
                   fetch_markdown, max_items, new, dirty, inserted, updated, results,
                   collected, outcome, run_exc, before, served>>

\* ingest_youtube, lines 36-38 and the start of collect_latest_videos: the active
\* channels (in the order the query returns them) and the cutoff.
SelectChannels(r) ==
    /\ pc[r] = "youtube"
    /\ UNCHANGED <<call, session>>
    /\ UNCHANGED last_fetch
    /\ LET channels == {c \in youtube_channels : c.active}
       IN  IF channels = {}
           THEN /\ pc' = [pc EXCEPT ![r] = "openai"]
                /\ UNCHANGED <<todo, run_cutoff>>
           ELSE /\ \E order \in Orders({c.channel_input : c \in channels}) :
                       todo' = [todo EXCEPT ![r] = order]
                /\ run_cutoff' = [run_cutoff EXCEPT ![r] = now - lookback_hours[r]]
                /\ pc' = [pc EXCEPT ![r] = "collect_videos"]
    /\ UNCHANGED <<articles, youtube_channels, now, world, kind, lookback_hours,
                   fetch_markdown, max_items, new, dirty, inserted, updated, results,
                   collected, outcome, run_exc, before, served>>

\* collect_latest_videos, one iteration of the loop over channel_inputs (todo[r]):
\* the next input is the one after those that have a result.
CollectChannel(r) ==
    /\ pc[r] = "collect_videos"
    /\ UNCHANGED <<call, session>>
    /\ Len(results[r]) < Len(todo[r])
    /\ \E network \in ResolveEnv :
        LET channel_input == todo[r][Len(results[r]) + 1]
            channel_id == resolve_channel_id(channel_input, network)
        IN  \E feed \in (IF channel_id = ResolveError THEN {FetchError} ELSE YtFeedEnv),
               transcripts \in TranscriptEnv :
                LET result == ChannelResult(channel_input, network, feed, run_cutoff[r],
                                            transcripts, NoCap)
                IN  /\ WithinItems(served[r], Len(result.videos))
                    /\ last_fetch' = IF channel_id = ResolveError THEN last_fetch
                                     ELSE [last_fetch EXCEPT ![r] =
                                              [source |-> "youtube", fault |-> FeedFault(feed)]]
                    /\ results' = [results EXCEPT ![r] = Append(@, result)]
                    /\ served' = [served EXCEPT ![r] = @ + Len(result.videos)]
    /\ UNCHANGED <<articles, youtube_channels, now, world, pc, kind, lookback_hours,
                   fetch_markdown, max_items, new, dirty, inserted, updated, todo,
                   collected, run_cutoff, outcome, run_exc, before>>

\* ingest_youtube, lines 47-60: the upsert of every collected video.
UpsertCollectedVideos(r) ==
    /\ pc[r] = "collect_videos"
    /\ UNCHANGED <<call, session>>
    /\ UNCHANGED last_fetch
    /\ Len(results[r]) = Len(todo[r])
    /\ LET done == UpsertVideos(Flatten(results[r]), articles, new[r], 0)
       IN  /\ new' = [new EXCEPT ![r] = done.new]
           /\ inserted' = [inserted EXCEPT ![r] = @ + done.inserted]
           /\ IF done.raised THEN Raise(r, done.exc)
              ELSE pc' = [pc EXCEPT ![r] = "openai"] /\ UNCHANGED run_exc
    /\ results' = [results EXCEPT ![r] = <<>>]
    /\ todo' = [todo EXCEPT ![r] = <<>>]
    /\ UNCHANGED <<articles, youtube_channels, now, world, kind, lookback_hours,
                   fetch_markdown, max_items, dirty, updated, collected, run_cutoff,
                   outcome, before, served>>

\* ingest_openai: collect_recent_articles, then the upsert of every article.
IngestOpenai(r) ==
    /\ pc[r] = "openai"
    /\ UNCHANGED <<call, session>>
    /\ \E feed \in OpenaiFeedEnv :
        LET got == OpenaiCollect(feed, now - lookback_hours[r], NoCap)
            done == UpsertOpenai(got.items, fetch_markdown[r], articles, new[r], 0)
        IN  /\ WithinItems(served[r], Len(got.items))
            /\ last_fetch' = [last_fetch EXCEPT ![r] =
                                 [source |-> "openai", fault |-> FeedFault(feed)]]
            /\ served' = [served EXCEPT ![r] = @ + Len(got.items)]
            /\ IF got.raised
               THEN /\ Raise(r, IF feed.ok THEN "ParserError" ELSE "TransportError")
                    /\ UNCHANGED <<new, inserted, todo>>
               ELSE /\ new' = [new EXCEPT ![r] = done.new]
                    /\ inserted' = [inserted EXCEPT ![r] = @ + done.inserted]
                    /\ IF done.raised THEN Raise(r, done.exc) /\ UNCHANGED todo
                       ELSE /\ pc' = [pc EXCEPT ![r] = "anthropic"]
                            /\ todo' = [todo EXCEPT ![r] = DEFAULT_ANTHROPIC_FEEDS]
                            /\ UNCHANGED run_exc
    /\ run_cutoff' = [run_cutoff EXCEPT ![r] = now - lookback_hours[r]]
    /\ UNCHANGED <<articles, youtube_channels, now, world, kind, lookback_hours,
                   fetch_markdown, max_items, dirty, updated, results, collected,
                   outcome, before>>

\* AnthropicScraper.collect_recent_articles, one iteration of the loop over
\* self.feed_urls (the cutoff was taken when ingest_anthropic was entered).
CollectAnthropicFeed(r) ==
    /\ pc[r] = "anthropic"
    /\ UNCHANGED <<call, session>>
    /\ todo[r] # <<>>
    /\ \E feed \in AnthropicFeedEnv(Head(todo[r])) :
        LET got == AnthropicCollectFeed(feed, Head(todo[r]), run_cutoff[r], NoCap, collected[r])
        IN  /\ WithinItems(served[r], Len(got.items) - Len(collected[r]))
            /\ last_fetch' = [last_fetch EXCEPT ![r] =
                                 [source |-> "anthropic", fault |-> FeedFault(feed)]]
            /\ served' = [served EXCEPT ![r] = @ + Len(got.items) - Len(collected[r])]
            /\ IF got.raised
               THEN /\ Raise(r, IF feed.ok THEN "ParserError" ELSE "TransportError")
                    /\ collected' = [collected EXCEPT ![r] = <<>>]
                    /\ todo' = [todo EXCEPT ![r] = <<>>]
               ELSE /\ collected' = [collected EXCEPT ![r] = got.items]
                    /\ todo' = [todo EXCEPT ![r] = Tail(@)]
                    /\ UNCHANGED <<pc, run_exc>>
    /\ UNCHANGED <<articles, youtube_channels, now, world, kind, lookback_hours,
                   fetch_markdown, max_items, new, dirty, inserted, updated, results,
                   run_cutoff, outcome, before>>

\* An ingest_anthropic that fetches every body, whatever fetch_markdown says.
UpsertCollectedArticlesEager(r) ==
    /\ pc[r] = "anthropic"
    /\ UNCHANGED <<call, session>>
    /\ UNCHANGED last_fetch
    /\ todo[r] = <<>>
    /\ \E markdown \in MarkdownEnv :
        LET done == UpsertAnthropic(collected[r], TRUE, markdown,
                                    articles, new[r], 0)
        IN  /\ new' = [new EXCEPT ![r] = done.new]
            /\ inserted' = [inserted EXCEPT ![r] = @ + done.inserted]
            /\ IF done.raised THEN Raise(r, done.exc)
               ELSE pc' = [pc EXCEPT ![r] = "commit"] /\ UNCHANGED run_exc
    /\ collected' = [collected EXCEPT ![r] = <<>>]
    /\ UNCHANGED <<articles, youtube_channels, now, world, kind, lookback_hours,
                   fetch_markdown, max_items, dirty, updated, todo, results, run_cutoff,
                   outcome, before, served>>

\* ingest_anthropic, lines 89-106: the upsert of every collected article.
UpsertCollectedArticles(r) ==
    /\ pc[r] = "anthropic"
    /\ UNCHANGED <<call, session>>
    /\ UNCHANGED last_fetch
    /\ todo[r] = <<>>
    /\ \E markdown \in MarkdownEnv :
        LET done == UpsertAnthropic(collected[r], fetch_markdown[r], markdown,
                                    articles, new[r], 0)
        IN  /\ new' = [new EXCEPT ![r] = done.new]
            /\ inserted' = [inserted EXCEPT ![r] = @ + done.inserted]
            /\ IF done.raised THEN Raise(r, done.exc)
               ELSE pc' = [pc EXCEPT ![r] = "commit"] /\ UNCHANGED run_exc
    /\ collected' = [collected EXCEPT ![r] = <<>>]
    /\ UNCHANGED <<articles, youtube_channels, now, world, kind, lookback_hours,
                   fetch_markdown, max_items, dirty, updated, todo, results, run_cutoff,
                   outcome, before, served>>

\* Whether a query of the store succeeds.
QueryEnv == IF world.fixed THEN {TRUE} ELSE BOOLEAN

\* run_enrich, one of enrich_openai_articles, enrich_anthropic_articles and
\* enrich_youtube_articles: the selection, then the loop over the selected items.
Enrich(r) ==
    /\ pc[r] \in EnrichPhases
    /\ UNCHANGED <<call, session>>
    /\ UNCHANGED last_fetch
    /\ \E query_ok \in QueryEnv, markdown \in MarkdownEnv, transcripts \in TranscriptEnv :
       \E items \in select_missing_content(articles, PhaseKind(pc[r]),
                                           now - lookback_hours[r], max_items[r]) :
        LET done == enrich_articles(pc[r], items, markdown, transcripts, now)
        IN  IF ~query_ok
            THEN Raise(r, "OperationalError") /\ UNCHANGED <<dirty, updated>>
            ELSE IF done.raised
            THEN Raise(r, done.exc) /\ UNCHANGED <<dirty, updated>>
            ELSE /\ dirty' = [dirty EXCEPT ![r] = @ \cup done.modified]
                 /\ updated' = [updated EXCEPT ![r] = @ + Len(items)]
                 /\ pc' = [pc EXCEPT ![r] = NextPhase(pc[r])]
                 /\ UNCHANGED run_exc
    /\ UNCHANGED <<articles, youtube_channels, now, world, kind, lookback_hours,
                   fetch_markdown, max_items, new, inserted, todo, results, collected,
                   run_cutoff, outcome, before, served>>

\* session.commit(): the flush, then the commit.  A flush that fails raises
\* IntegrityError and applies nothing.
Commit(r) ==
    /\ pc[r] = "commit"
    /\ UNCHANGED call
    /\ UNCHANGED last_fetch
    /\ IF FlushFails(articles, new[r])
       THEN /\ Raise(r, "IntegrityError")
            /\ UNCHANGED <<articles, new, dirty, outcome, session>>
       ELSE /\ articles' = Committed(articles, new[r], dirty[r])
            /\ session' = [session EXCEPT ![r].commits = @ + 1]
            /\ new' = [new EXCEPT ![r] = <<>>]
            /\ dirty' = [dirty EXCEPT ![r] = {}]
            /\ outcome' = [outcome EXCEPT ![r] = "committed"]
            /\ pc' = [pc EXCEPT ![r] = "finally"]
            /\ UNCHANGED run_exc
    /\ UNCHANGED <<youtube_channels, now, world, kind, lookback_hours, fetch_markdown,
                   max_items, inserted, updated, todo, results, collected, run_cutoff,
                   before, served>>

\* An except clause that re-raises without session.rollback(), on a session the
\* close of which writes out what it holds.
ExceptNoRollback(r) ==
    /\ pc[r] = "except"
    /\ UNCHANGED <<call, session>>
    /\ articles' = Committed(articles, new[r], dirty[r])
    /\ new' = [new EXCEPT ![r] = <<>>]
    /\ dirty' = [dirty EXCEPT ![r] = {}]
    /\ outcome' = [outcome EXCEPT ![r] = "raised"]
    /\ pc' = [pc EXCEPT ![r] = "finally"]
    /\ UNCHANGED <<youtube_channels, now, world, kind, lookback_hours, fetch_markdown,
                   max_items, inserted, updated, todo, results, collected, run_cutoff,
                   run_exc, before, served, last_fetch>>

\* except Exception: session.rollback(); raise.
Except(r) ==
    /\ pc[r] = "except"
    /\ UNCHANGED call
    /\ session' = [session EXCEPT ![r].rollbacks = @ + 1]
    /\ UNCHANGED last_fetch
    /\ new' = [new EXCEPT ![r] = <<>>]
    /\ dirty' = [dirty EXCEPT ![r] = {}]
    /\ outcome' = [outcome EXCEPT ![r] = "raised"]
    /\ pc' = [pc EXCEPT ![r] = "finally"]
    /\ UNCHANGED <<articles, youtube_channels, now, world, kind, lookback_hours,
                   fetch_markdown, max_items, inserted, updated, todo, results,
                   collected, run_cutoff, run_exc, before, served>>

\* A run without the finally clause: the session is never closed.
FinallyKeepsSession(r) ==
    /\ pc[r] = "finally"
    /\ pc' = [pc EXCEPT ![r] = "idle"]
    /\ todo' = [todo EXCEPT ![r] = <<>>]
    /\ results' = [results EXCEPT ![r] = <<>>]
    /\ collected' = [collected EXCEPT ![r] = <<>>]
    /\ UNCHANGED <<articles, youtube_channels, now, world, kind, lookback_hours,
                   fetch_markdown, max_items, new, dirty, inserted, updated,
                   run_cutoff, outcome, run_exc, before, served, last_fetch, call, session>>

\* finally: session.close(); the run has ended and its locals are gone.
Finally(r) ==
    /\ pc[r] = "finally"
    /\ UNCHANGED call
    /\ session' = [session EXCEPT ![r].held = FALSE]
    /\ UNCHANGED last_fetch
    /\ pc' = [pc EXCEPT ![r] = "idle"]
    /\ todo' = [todo EXCEPT ![r] = <<>>]
    /\ results' = [results EXCEPT ![r] = <<>>]
    /\ collected' = [collected EXCEPT ![r] = <<>>]
    /\ UNCHANGED <<articles, youtube_channels, now, world, kind, lookback_hours,
                   fetch_markdown, max_items, new, dirty, inserted, updated,
                   run_cutoff, outcome, run_exc, before, served>>

\* The steps of an ingest run after its start.
IngestStep(r) ==
    \/ SelectChannels(r)
    \/ CollectChannel(r)
    \/ UpsertCollectedVideos(r)
    \/ IngestOpenai(r)
    \/ CollectAnthropicFeed(r)
    \/ UpsertCollectedArticles(r)
    \/ Commit(r)
    \/ Except(r)
    \/ Finally(r)

\* One process runs ingest and enrich, one run after the other, against an
\* environment that may answer every call in any way.
Next ==
    \/ Begin("A", {"ingest", "enrich"})
    \/ IngestStep("A")
    \/ Enrich("A")

Spec == Init /\ [][Next]_vars

\* The same runs, where a run that has begun takes its next step: the
\* interpreter goes on, and every call of a collaborator returns or raises.
SpecFair == Spec /\ WF_vars(IngestStep("A") \/ Enrich("A"))

\* Ingest run twice in succession, by "A" and then by "B", with the same
\* arguments and against feed indices that have not changed.
InitRerun == Start(SteadyWorlds)

BeginFirst ==
    /\ outcome["A"] = "none"
    /\ Begin("A", {"ingest"})

BeginSecond ==
    /\ pc["A"] = "idle"
    /\ outcome["A"] # "none"
    /\ outcome["B"] = "none"
    /\ Begin("B", {"ingest"})
    /\ lookback_hours'["B"] = lookback_hours["A"]
    /\ fetch_markdown'["B"] = fetch_markdown["A"]

NextRerun ==
    \/ BeginFirst
    \/ BeginSecond
    \/ IngestStep("A")
    \/ IngestStep("B")

SpecRerun == InitRerun /\ [][NextRerun]_vars

\* Two Ingest runs at the same time, one run each for "A" and "B", every step of
\* one interleaved with the steps of the other.
InitRace == Start(RaceWorlds)

BeginOnce(r) ==
    /\ outcome[r] = "none"
    /\ Begin(r, {"ingest"})

NextRace ==
    \/ BeginOnce("A")
    \/ BeginOnce("B")
    \/ IngestStep("A")
    \/ IngestStep("B")

SpecRace == InitRace /\ [][NextRace]_vars

\* -------------------------------------------------- the functions on their own

\* The variables a call of one function on its own leaves alone.
run_vars == <<youtube_channels, now, world, pc, kind, lookback_hours, fetch_markdown,
              max_items, new, dirty, inserted, updated, todo, results, collected,
              run_cutoff, outcome, run_exc, before, served, last_fetch, session>>

\* Stores as Ingest commits them: at most one row per url, no body fields set but
\* the markdown an Ingest with fetch_markdown stored.  The two video rows differ in
\* their publish time.
IngestedRows ==
    {Article("youtube", "UCx", "t", "w1", 1, None, None),
     Article("youtube", "UCx", "t", "w1s", 0, None, None)}
    \cup {Article("openai", "openai_news", "t", u, 1, "d", None) : u \in FeedUrls}
    \cup {Article("anthropic", "news", "t", u, 1, "d", c) :
              u \in FeedUrls, c \in MarkdownOutcomes}
IngestedStores ==
    {st \in SUBSET IngestedRows : \A a, b \in st : a.url = b.url => a = b}

\* lookback_hours values the enrich functions are called with: the cutoff is the
\* later or the earlier of the two publish times.
PhaseLookbacks == {1, 2}

\* enrich_openai_articles / enrich_anthropic_articles / enrich_youtube_articles
\* called on a session of its own, which is committed when the call returns.
EnrichCall(phase) ==
    /\ \E hours \in PhaseLookbacks, cap \in Caps,
          markdown \in (IF phase = "enrich_youtube" THEN {[u \in FeedUrls |-> None]}
                        ELSE MarkdownEnv),
          transcripts \in (IF phase = "enrich_youtube" THEN TranscriptEnv
                           ELSE {[v \in VideoIds |-> NoTranscript]}) :
       \E items \in select_missing_content(articles, PhaseKind(phase), now - hours, cap) :
        LET done == enrich_articles(phase, items, markdown, transcripts, now)
        IN  /\ call' = [fn |-> phase, table |-> articles, cutoff |-> now - hours,
                        cap |-> cap, items |-> items, markdown |-> markdown,
                        transcripts |-> transcripts, raised |-> done.raised]
            /\ articles' = IF done.raised THEN articles
                           ELSE Committed(articles, <<>>, done.modified)
    /\ UNCHANGED run_vars

InitPhases ==
    /\ StartIn(IngestedStores, {FreeWorld})
    /\ \A c \in youtube_channels : c.active

NextPhases ==
    \/ EnrichCall("enrich_openai")
    \/ EnrichCall("enrich_anthropic")
    \/ EnrichCall("enrich_youtube")

SpecPhases == InitPhases /\ [][NextPhases]_vars

\* resolve_channel_id in full.  What the channel's profile page, its videos
\* sub-page and the embed-info endpoint answer: an id, nothing to find (None), or
\* a failed request ("raise": the request raises, raise_for_status does, or the
\* JSON of the embed-info answer cannot be decoded).
Strategies == <<"direct", "profile", "videos", "oembed">>
PageOutcomes == {None, "raise", "UCx", "UCy"}
Networks == [profile : PageOutcomes, videos : PageOutcomes, oembed : PageOutcomes]
\* The references resolve_channel_id is called with: a canonical id, a handle, a
\* text to_channel_url does not support, and the empty string.
ResolveInputs == ChannelInputs \cup {"text", ""}

\* to_channel_url: a handle gets a profile url, any other text raises ValueError.
to_channel_url(channel_input) == IF channel_input = "@h" THEN "url" ELSE "raise"

ResolveRaised(exc, reference, invoked) ==
    [raised |-> TRUE, exc |-> exc, reference |-> reference, id |-> None, invoked |-> invoked]
Resolved(id, invoked) ==
    [raised |-> FALSE, exc |-> None, reference |-> None, id |-> id, invoked |-> invoked]

\* A resolver that asks the embed-info endpoint before the videos sub-page.
resolve_steps_embed_first(channel_input, network) ==
    IF channel_input = "" THEN ResolveRaised("Channel input is empty.", None, <<>>)
    ELSE IF try_extract_channel_id_from_text(channel_input) # None
    THEN Resolved(try_extract_channel_id_from_text(channel_input), <<"direct">>)
    ELSE IF to_channel_url(channel_input) = "raise"
    THEN ResolveRaised("Unsupported channel input", channel_input, <<"direct", "profile">>)
    ELSE IF network.profile = "raise"
    THEN ResolveRaised("TransportError", None, <<"direct", "profile">>)
    ELSE IF network.profile # None
    THEN Resolved(network.profile, <<"direct", "profile">>)
    ELSE IF network.oembed = "raise"
    THEN ResolveRaised("TransportError", None, <<"direct", "profile", "oembed">>)
    ELSE IF network.oembed # None
    THEN Resolved(network.oembed, <<"direct", "profile", "oembed">>)
    ELSE IF network.videos = "raise"
    THEN ResolveRaised("TransportError", None, <<"direct", "profile", "oembed", "videos">>)
    ELSE IF network.videos # None
    THEN Resolved(network.videos, <<"direct", "profile", "oembed", "videos">>)
    ELSE ResolveRaised("Could not resolve channel ID", channel_input,
                       <<"direct", "profile", "oembed", "videos">>)

\* resolve_channel_id, statement by statement: what it returns or raises, and the
\* strategies it has invoked, in order.
resolve_steps(channel_input, network) ==
    IF channel_input = "" THEN ResolveRaised("Channel input is empty.", None, <<>>)
    ELSE IF try_extract_channel_id_from_text(channel_input) # None
    THEN Resolved(try_extract_channel_id_from_text(channel_input), <<"direct">>)
    ELSE IF to_channel_url(channel_input) = "raise"
    THEN ResolveRaised("Unsupported channel input", channel_input, <<"direct", "profile">>)
    ELSE IF network.profile = "raise"
    THEN ResolveRaised("TransportError", None, <<"direct", "profile">>)
    ELSE IF network.profile # None
    THEN Resolved(network.profile, <<"direct", "profile">>)
    ELSE IF network.videos = "raise"
    THEN ResolveRaised("TransportError", None, <<"direct", "profile", "videos">>)
    ELSE IF network.videos # None
    THEN Resolved(network.videos, <<"direct", "profile", "videos">>)
    ELSE IF network.oembed = "raise"
    THEN ResolveRaised("TransportError", None, Strategies)
    ELSE IF network.oembed # None
    THEN Resolved(network.oembed, Strategies)
    ELSE ResolveRaised("Could not resolve channel ID", channel_input, Strategies)

\* One call of resolve_channel_id.
ResolveCall ==
    /\ call = NoCall
    /\ \E channel_input \in ResolveInputs, network \in Networks :
          call' = [fn |-> "resolve_channel_id", channel_input |-> channel_input,
                   network |-> network, out |-> resolve_steps(channel_input, network)]
    /\ UNCHANGED articles
    /\ UNCHANGED run_vars

\* get_video_transcript in full.  A listed transcript: whether it is
\* auto-generated, and what its fetch() yields ("raise", or the joined and
\* stripped text, "" for an empty one).
MaxListed == 2
FetchYields == {"raise", "", "ta", "tb"}
Listed == [is_generated : BOOLEAN, fetch : FetchYields]
\* What api.list(video_id) yields: it raises, or the transcripts in its order.
ListingFails == [raised |-> TRUE, transcripts |-> <<>>]
Listings ==
    {ListingFails} \cup {[raised |-> FALSE, transcripts |-> l] : l \in SeqsUpTo(Listed, MaxListed)}
\* The installed youtube_transcript_api: not installed, one with the class method
\* get_transcript, or one with the instance methods fetch and list; "preferred"
\* is what the fetch in the preferred languages yields, "listing" what
\* api.list(video_id) yields.
TranscriptApis ==
    [module : {"missing"}, preferred : {"raise"}, listing : {ListingFails}]
    \cup [module : {"get_transcript"}, preferred : {"raise", "", "tp"}, listing : {ListingFails}]
    \cup [module : {"fetch"}, preferred : {"", "tp"}, listing : {ListingFails}]
    \cup [module : {"fetch"}, preferred : {"raise"}, listing : Listings]

IsGenerated(transcript) == transcript.is_generated
IsManual(transcript) == ~transcript.is_generated

\* The first text of the transcripts in the order given: a fetch that raises is
\* skipped ("continue"), an empty text is passed over.
RECURSIVE FirstText(_)
FirstText(transcripts) ==
    IF transcripts = <<>> THEN None
    ELSE IF Head(transcripts).fetch \notin {"raise", ""} THEN Head(transcripts).fetch
    ELSE FirstText(Tail(transcripts))

\* A fallback that takes the listing as it comes.
fallback_unsorted(listing) == FirstText(listing)

\* The fallback loop: transcripts.sort(key=is_generated) is a stable sort with
\* False before True, then the first non-empty text.
fallback_text(listing) ==
    FirstText(SelectSeq(listing, IsManual) \o SelectSeq(listing, IsGenerated))

\* A fetcher that returns the joined text as it is, empty or not.
TextAsIs(text) == text

\* "return text or None, None": an empty text becomes None.
TextOrNone(text) == IF text = "" THEN None ELSE text
TranscriptResult(content, error) == [raised |-> FALSE, content |-> content, error |-> error]

\* A fetcher whose outer "except Exception" is missing: an error of api.list
\* leaves the function.
get_video_transcript_unguarded(api) ==
    IF api.module = "missing"
    THEN TranscriptResult(None, "Missing dependency: youtube-transcript-api")
    ELSE IF api.preferred # "raise" THEN TranscriptResult(TextOrNone(api.preferred), None)
    ELSE IF api.module = "get_transcript" THEN [raised |-> TRUE, content |-> None, error |-> None]
    ELSE IF api.listing.raised THEN [raised |-> TRUE, content |-> None, error |-> None]
    ELSE IF fallback_text(api.listing.transcripts) # None
    THEN TranscriptResult(fallback_text(api.listing.transcripts), None)
    ELSE TranscriptResult(None, "preferred_error")

\* get_video_transcript: the pair it returns.
get_video_transcript(api) ==
    IF api.module = "missing"
    THEN TranscriptResult(None, "Missing dependency: youtube-transcript-api")
    ELSE IF api.preferred # "raise" THEN TranscriptResult(TextOrNone(api.preferred), None)
    ELSE IF api.module = "get_transcript" THEN TranscriptResult(None, "exc")
    ELSE IF api.listing.raised THEN TranscriptResult(None, "listing_error")
    ELSE IF fallback_text(api.listing.transcripts) # None
    THEN TranscriptResult(fallback_text(api.listing.transcripts), None)
    ELSE TranscriptResult(None, "preferred_error")

\* One call of get_video_transcript.
TranscriptCall ==
    /\ call = NoCall
    /\ \E api \in TranscriptApis :
          call' = [fn |-> "get_video_transcript", api |-> api, out |-> get_video_transcript(api)]
    /\ UNCHANGED articles
    /\ UNCHANGED run_vars

\* The entries a collector called on its own is served: the timestamp absent,
\* unparsable, one hour before the cutoff or exactly at it.
CallTimes == {NoTime, BadTime} \cup EntryTimes
CallFeeds ==
    {FetchError} \cup
    {Fetched(es) : es \in SeqsUpTo([link : FeedUrls, title : {"t"}, description : {"d"},
                                    published : CallTimes, updated : {NoTime}], MaxFeedLen)}
CallYtFeeds ==
    {FetchError} \cup
    {Fetched(es) : es \in SeqsUpTo({e \in YtEntries : e.link # "w1s"}
                                    \cup {[e EXCEPT !.published = NoTime] :
                                              e \in {y \in YtEntries : y.link # "w1s"}},
                                    MaxFeedLen)}

\* A window that opens one hour too early.
window_cutoff_early(t, hours) == t - hours - 1

\* cutoff = datetime.now(timezone.utc) - timedelta(hours=lookback_hours)
window_cutoff(t, hours) == t - hours

\* One call of a collector: collect_recent_articles of feed-a, of feed-b with one
\* feed url, or collect_latest_videos with one channel given by its id.
CollectCall(collector) ==
    /\ call = NoCall
    /\ \E hours \in Lookbacks, cap \in Caps,
          feed \in (IF collector = "youtube" THEN CallYtFeeds ELSE CallFeeds) :
          LET cutoff == window_cutoff(now, hours)
              listed == CASE collector = "openai" -> OpenaiCollect(feed, cutoff, cap)
                          [] collector = "anthropic" ->
                                AnthropicCollectFeed(feed, "news", cutoff, cap, <<>>)
                          [] OTHER -> Returned(<<>>)
              result == ChannelResult("UCx", "UCx", feed, cutoff,
                                      [v \in VideoIds |-> NoTranscript], cap)
          IN  call' = [fn |-> "collect", collector |-> collector, feed |-> feed,
                       lookback_hours |-> hours, cap |-> cap,
                       raised |-> listed.raised,
                       error |-> IF collector = "youtube" THEN result.error ELSE None,
                       items |-> IF collector = "youtube" THEN result.videos
                                 ELSE IF listed.raised THEN <<>> ELSE listed.items]
    /\ UNCHANGED articles
    /\ UNCHANGED run_vars

\* The functions of the collectors, each called on its own on a fresh scraper
\* with any arguments and any answers of the network (they keep no state from
\* one call to the next).
InitCalls == Start({FreeWorld})

NextCalls ==
    \/ ResolveCall
    \/ TranscriptCall
    \/ CollectCall("openai")
    \/ CollectCall("anthropic")
    \/ CollectCall("youtube")

SpecCalls == InitCalls /\ [][NextCalls]_vars

\* The rows Ingest upserts: those of IngestedRows, and feed items whose body an
\* Ingest with fetch_markdown fetched when the page read "body".
StoreCandidates ==
    IngestedRows \cup {Article("anthropic", "news", "t", u, 1, "d", "body") : u \in FeedUrls}

\* One upsert of Ingest on a session of its own, committed.
StoreUpsert ==
    /\ \E candidate \in StoreCandidates :
          LET up == upsert_article(articles, <<>>, candidate)
          IN  /\ call' = [fn |-> "upsert_article", table |-> articles,
                          candidate |-> [candidate EXCEPT !.video_id = None],
                          inserted |-> up.inserted, rows |-> {}]
              /\ articles' = IF FlushFails(articles, up.new) THEN articles
                              ELSE Committed(articles, up.new, {})
    /\ UNCHANGED run_vars

\* Any sequence of committed upserts and enrichments.
NextStore ==
    \/ StoreUpsert
    \/ EnrichCall("enrich_openai")
    \/ EnrichCall("enrich_anthropic")
    \/ EnrichCall("enrich_youtube")

SpecStore == InitPhases /\ [][NextStore]_vars

\* Stored channel videos without body: one whose url carries the video id and
\* one, stored through crud.create_article, whose url carries none.
VideoRows ==
    {Article("youtube", "UCx", "t", "w1", 1, None, None),
     Article("youtube", "UCx", "t", "x0", 1, None, None)}

\* What get_video_transcript answers for every video when the transcript
\* library behaves as api.
TranscriptsOf(api) ==
    [v \in VideoIds |-> [text |-> get_video_transcript(api).content,
                         error |-> get_video_transcript(api).error]]

\* enrich_youtube_articles on a session of its own, committed when the call
\* returns, with get_video_transcript in full.
VideoEnrichCall ==
    /\ call = NoCall
    /\ \E hours \in Lookbacks, cap \in Caps, api \in TranscriptApis :
       \E items \in select_missing_content(articles, "youtube", now - hours, cap) :
        LET done == enrich_articles("enrich_youtube", items, [u \in FeedUrls |-> None],
                                    TranscriptsOf(api), now)
        IN  /\ call' = [fn |-> "enrich_youtube_articles", table |-> articles,
                        cutoff |-> now - hours, cap |-> cap, items |-> items, api |-> api]
            /\ articles' = Committed(articles, <<>>, done.modified)
    /\ UNCHANGED run_vars

InitVideos == StartIn(SUBSET VideoRows, {FreeWorld})

NextVideos == VideoEnrichCall

SpecVideos == InitVideos /\ [][NextVideos]_vars

\* Transcript libraries for enrichments that follow one another: either
\* interface, the preferred fetch raising, empty or with text, and a listing that
\* fails or holds one human-authored transcript with text.
RepeatApis ==
    [module : {"missing"}, preferred : {"raise"}, listing : {ListingFails}]
    \cup [module : {"get_transcript", "fetch"}, preferred : {"raise", "", "tp"},
          listing : {ListingFails,
                     [raised |-> FALSE,
                      transcripts |-> <<[is_generated |-> FALSE, fetch |-> "ta"]>>]}]

\* enrich_youtube_articles called again and again, each call on a session of its
\* own that is committed when the call returns.
VideoEnrichRepeated ==
    /\ \E hours \in Lookbacks, cap \in Caps, api \in RepeatApis :
       \E items \in select_missing_content(articles, "youtube", now - hours, cap) :
        LET done == enrich_articles("enrich_youtube", items, [u \in FeedUrls |-> None],
                                    TranscriptsOf(api), now)
        IN  /\ call' = [fn |-> "enrich_youtube_articles", table |-> articles,
                        cutoff |-> now - hours, cap |-> cap, items |-> items, api |-> api,
                        out |-> get_video_transcript(api)]
            /\ articles' = Committed(articles, <<>>, done.modified)
    /\ UNCHANGED run_vars

NextRepeated == VideoEnrichRepeated

SpecRepeated == InitVideos /\ [][NextRepeated]_vars

\* The candidates an upsert is called with: any kind, title, url, publish time,
\* summary and body, a channel video with or without its video id.
Candidates ==
    {[Article(k, "s", title, url, published_at, summary, raw_content)
         EXCEPT !.video_id = video_id] :
        k \in {"youtube", "openai"}, title \in {"t", "t2"}, url \in {"u1", "w1", "w2"},
        published_at \in {1, 2}, summary \in {None, "d2"},
        raw_content \in {None, "body"}, video_id \in {None, "v1"}}

\* crud.create_article: the lookup by url, for a channel video with a video id
\* also by (source_type, video_id); the row found, or the candidate added and
\* flushed.
create_article(table, candidate) ==
    LET by_url == {row \in table : row.url = candidate.url}
        by_video == IF by_url = {} /\ candidate.source_type = "youtube"
                       /\ candidate.video_id # None
                    THEN {row \in table : /\ row.source_type = "youtube"
                                          /\ row.video_id = candidate.video_id}
                    ELSE {}
    IN  IF by_url \cup by_video # {}
        THEN [table |-> table, rows |-> by_url \cup by_video]
        ELSE [table |-> table \cup {candidate}, rows |-> {candidate}]

\* One call of pipeline.upsert_article or of crud.create_article on a session
\* of its own, which is then committed.
UpsertCall(fn) ==
    /\ call = NoCall
    /\ \E candidate \in Candidates :
          LET up == upsert_article(articles, <<>>,
                        Article(candidate.source_type, candidate.source, candidate.title,
                                candidate.url, candidate.published_at, candidate.summary,
                                candidate.raw_content))
              made == create_article(articles, candidate)
          IN  /\ fn = "upsert_article" => candidate.video_id = None
              /\ call' = [fn |-> fn, table |-> articles, candidate |-> candidate,
                          inserted |-> IF fn = "upsert_article" THEN up.inserted ELSE 0,
                          rows |-> IF fn = "upsert_article" THEN {} ELSE made.rows]
              /\ articles' = IF fn = "create_article" THEN made.table
                              ELSE IF FlushFails(articles, up.new) THEN articles
                              ELSE Committed(articles, up.new, {})
    /\ UNCHANGED run_vars

InitUpsert == StartIn(IngestedStores, {FreeWorld})

NextUpsert ==
    \/ UpsertCall("upsert_article")
    \/ UpsertCall("create_article")

SpecUpsert == InitUpsert /\ [][NextUpsert]_vars

\* crud.py on the youtube_channels table, as one session sees it: every function
\* that changes a row flushes (or executes its statement) before it returns.
CrudInputs == ChannelInputs \cup {"@k"}
YoutubeChannel(channel_input, active) == [channel_input |-> channel_input, active |-> active]
ChannelRows(table, channel_input) == {c \in table : c.channel_input = channel_input}
CrudResult(table, rows, rowcount) == [table |-> table, rows |-> rows, rowcount |-> rowcount]

\* A registration that writes the given flag onto a row that exists.
create_youtube_channel_overwrite(table, channel_input, active) ==
    CrudResult((table \ ChannelRows(table, channel_input))
                   \cup {YoutubeChannel(channel_input, active)},
               {YoutubeChannel(channel_input, active)}, 0)

\* create_youtube_channel: the existing row, or a new one added and flushed.
create_youtube_channel(table, channel_input, active) ==
    IF ChannelRows(table, channel_input) # {}
    THEN CrudResult(table, ChannelRows(table, channel_input), 0)
    ELSE CrudResult(table \cup {YoutubeChannel(channel_input, active)},
                    {YoutubeChannel(channel_input, active)}, 0)

\* set_youtube_channel_active: None (no row), or the row with its flag set.
set_youtube_channel_active(table, channel_input, active) ==
    IF ChannelRows(table, channel_input) = {}
    THEN CrudResult(table, {}, 0)
    ELSE CrudResult((table \ ChannelRows(table, channel_input))
                        \cup {YoutubeChannel(channel_input, active)},
                    {YoutubeChannel(channel_input, active)}, 0)

\* delete_youtube_channel: the DELETE statement and its rowcount.
delete_youtube_channel(table, channel_input) ==
    CrudResult(table \ ChannelRows(table, channel_input), {},
               Cardinality(ChannelRows(table, channel_input)))

\* One call of a crud function on the watched channels.
ChannelCall(fn) ==
    /\ \E channel_input \in CrudInputs, active \in BOOLEAN :
          LET done == CASE fn = "create_youtube_channel" ->
                              create_youtube_channel(youtube_channels, channel_input, active)
                        [] fn = "set_youtube_channel_active" ->
                              set_youtube_channel_active(youtube_channels, channel_input, active)
                        [] OTHER -> delete_youtube_channel(youtube_channels, channel_input)
          IN  /\ fn = "delete_youtube_channel" => active
              /\ youtube_channels' = done.table
              /\ call' = [fn |-> fn, channel_input |-> channel_input, active |-> active,
                          table |-> youtube_channels, rows |-> done.rows,
                          rowcount |-> done.rowcount]
    /\ UNCHANGED <<articles, now, world, pc, kind, lookback_hours, fetch_markdown,
                   max_items, new, dirty, inserted, updated, todo, results, collected,
                   run_cutoff, outcome, run_exc, before, served, last_fetch, session>>

\* Any sequence of registrations, activations and removals.
InitChannels == Start({FreeWorld})

NextChannels ==
    \/ ChannelCall("create_youtube_channel")
    \/ ChannelCall("set_youtube_channel_active")
    \/ ChannelCall("delete_youtube_channel")

SpecChannels == InitChannels /\ [][NextChannels]_vars

\* ------------------------------------------------------------- properties

\* Two rows of a session's pending list that carry one url.
PendingTwice(pending) ==
    \E i, j \in DOMAIN pending : i < j /\ pending[i].url = pending[j].url

\* C1: when Ingest has run twice in succession against unchanged feed indices,
\* the second run has returned an inserted count of 0 and the store holds as
\* many rows as before it.
C1_SecondRunInsertsNothing ==
    (pc["B"] = "idle" /\ outcome["B"] # "none") =>
        /\ outcome["B"] = "committed"
        /\ inserted["B"] = 0
        /\ Cardinality(articles) = Cardinality(before["B"])

\* C2: within one Ingest run an upsert of a url that was upserted earlier in the
\* run finds the earlier record and adds nothing, so the session never holds two
\* rows for one url and the run's commit is not rejected for a duplicate url.
C2_RepeatedUrlIsNoOp ==
    \A r \in Runs : ~PendingTwice(new[r]) /\ run_exc[r] # "IntegrityError"

\* C3: the store never holds two channel-video rows of one native video id.
C3_VideoIdUnique ==
    \A a, b \in articles :
        (/\ a.source_type = "youtube"
         /\ b.source_type = "youtube"
         /\ extract_video_id(a.url) = extract_video_id(b.url)) => a = b

\* C4: when two concurrent Ingest runs have both added the same new url, the
\* duplicate-key violation of the second commit is taken as "already exists":
\* no run fails with it unless its own session held the url twice.
C4_ConcurrentDuplicateIsNoError ==
    \A r \in Runs :
        (pc[r] = "except" /\ run_exc[r] = "IntegrityError") => PendingTwice(new[r])

\* C5: after an Ingest or Enrich run that ended with an exception, the store is
\* what it was before the run: none of the run's writes is visible.
C5_RaisedRunLeavesStore ==
    \A r \in Runs : outcome[r] = "raised" => articles = before[r]

\* C5 witness: a run that had added rows, then failed collecting feed-b, and ended.
C5_Witness ==
    /\ outcome["A"] = "raised"
    /\ inserted["A"] > 0
    /\ last_fetch["A"].source = "anthropic"
    /\ last_fetch["A"].fault # None

\* C6 as stated: a fault of the index fetch of any of the three sources aborts the
\* Ingest run, which commits nothing.
C6_EveryIndexFaultAborts ==
    \A r \in Runs :
        last_fetch[r].fault # None =>
            /\ pc[r] \in {"except", "finally", "idle"}
            /\ outcome[r] # "committed"

\* C6 amended: a fault of the index fetch of feed-a or feed-b aborts the Ingest
\* run with that error and nothing committed; a fault of the feed of a resolved
\* channel is caught by the collector, which records it in that channel's result
\* (no videos), and is never the error a run ends with.
C6_FeedIndexFaultAborts ==
    \A r \in Runs :
        /\ (last_fetch[r].fault # None /\ last_fetch[r].source \in {"openai", "anthropic"}) =>
                /\ pc[r] \in {"except", "finally", "idle"}
                /\ run_exc[r] = last_fetch[r].fault
                /\ outcome[r] # "committed"
                /\ outcome[r] = "raised" => articles = before[r]
        /\ (/\ last_fetch[r].fault # None
            /\ last_fetch[r].source = "youtube"
            /\ pc[r] = "collect_videos") =>
                \E i \in DOMAIN results[r] :
                    /\ results[r][i].error = last_fetch[r].fault
                    /\ results[r][i].videos = <<>>
        /\ run_exc[r] \in {"TransportError", "ParserError"} =>
                last_fetch[r].source \in {"openai", "anthropic"}

\* C6 witness: a run that had added video rows, met a transport error fetching
\* the feed-a index, and ended with the store as it was.
C6_Witness ==
    /\ outcome["A"] = "raised"
    /\ inserted["A"] > 0
    /\ last_fetch["A"] = [source |-> "openai", fault |-> "TransportError"]

\* C7: a channel that cannot be resolved gets a result with an error, no id and
\* no videos; the results are one per input channel in input order; and when the
\* collection is over the videos of the other channels are upserted, the run
\* going on to feed-a.
C7_UnresolvedChannelIsIsolated ==
    [][\A r \in Runs :
        /\ pc[r] = "collect_videos" =>
              \A i \in DOMAIN results[r] :
                  /\ results[r][i].channel_input = todo[r][i]
                  /\ results[r][i].error # None =>
                         results[r][i].channel_id = None /\ results[r][i].videos = <<>>
        /\ (/\ pc[r] = "collect_videos"
            /\ pc'[r] # "collect_videos"
            /\ \E i \in DOMAIN results[r] : results[r][i].error = ResolveError) =>
              /\ pc'[r] = "openai"
              /\ \A i \in DOMAIN Flatten(results[r]) :
                     FoundByUrl(articles \cup Range(new'[r]), Flatten(results[r])[i].url)]_vars

\* C8: an Ingest run with fetch_markdown set does not end with the error of a
\* body fetch of a feed-a or feed-b item.
C8_BodyFetchFailureIsRecovered ==
    \A r \in Runs :
        (kind[r] = "ingest" /\ fetch_markdown[r] /\ last_fetch[r].source \in {"openai", "anthropic"})
            => run_exc[r] \notin {"AttributeError", "ConversionError"}

\* C9: a collected video that carries a transcript and is not in the store yet is
\* added with the transcript text as its raw_content, the run going on to feed-a.
C9_TranscriptBecomesContent ==
    [][\A r \in Runs :
        (pc[r] = "collect_videos" /\ pc'[r] # "collect_videos") =>
            \A i \in DOMAIN Flatten(results[r]) :
                LET video == Flatten(results[r])[i]
                IN  (video.transcript # None /\ ~FoundByUrl(articles, video.url)) =>
                        /\ pc'[r] = "openai"
                        /\ \E k \in DOMAIN new'[r] :
                               /\ new'[r][k].url = video.url
                               /\ new'[r][k].raw_content = video.transcript]_vars

\* The text the body fetch of an enrich call returns for a row (None: no text).
FetchedText(row) ==
    IF call.fn = "enrich_youtube"
    THEN (IF extract_video_id(row.url) = None THEN None
          ELSE call.transcripts[extract_video_id(row.url)].text)
    ELSE call.markdown[row.url]

\* The rows of a table an enrich call for source kind k with this cutoff is to work on.
Missing(table, k, cutoff) ==
    {row \in table : row.source_type = k /\ row.raw_content = None /\ row.published_at >= cutoff}

\* C10: an Enrich run whose selection queries succeed commits: the only error it
\* ends with is that of a failed selection query.
C10_EnrichCommits ==
    \A r \in Runs : kind[r] = "enrich" => run_exc[r] \in {None, "OperationalError"}

\* C11: an item whose earlier enrichment recorded an error (content absent) and
\* that is still inside the window is selected by the next enrichment of its
\* kind, and when the body fetch returns text the item ends that enrichment with
\* the text as its content and no error.
C11_FailedItemIsRetried ==
    call.fn \in EnrichPhases =>
        \A row \in Missing(call.table, PhaseKind(call.fn), call.cutoff) :
            row.content_error # None =>
                /\ call.cap = NoCap => \E i \in DOMAIN call.items : call.items[i] = row
                /\ ((\E i \in DOMAIN call.items : call.items[i] = row) /\ FetchedText(row) # None) =>
                       \E after \in articles :
                           /\ after.url = row.url
                           /\ after.raw_content = FetchedText(row)
                           /\ after.content_error = None

\* The error the body fetch of an enrich call reports for a row (None: no error).
FetchedError(row) ==
    IF call.fn = "enrich_youtube"
    THEN (IF extract_video_id(row.url) = None THEN "Unable to extract video_id from URL."
          ELSE call.transcripts[extract_video_id(row.url)].error)
    ELSE (IF call.markdown[row.url] = None THEN "ConversionError" ELSE None)

\* C12: no stored item has both body content and a body fetch error; and an
\* enrichment attempt that failed has set the item's error and left its content
\* absent, one that got text has set the content to it and cleared the error.
C12_ContentExcludesError ==
    /\ \A row \in articles : row.raw_content = None \/ row.content_error = None
    /\ (call.fn \in EnrichPhases /\ ~call.raised) =>
          \A i \in DOMAIN call.items :
              \E after \in articles :
                  /\ after.url = call.items[i].url
                  /\ FetchedError(call.items[i]) # None =>
                         /\ after.content_error = FetchedError(call.items[i])
                         /\ after.raw_content = None
                  /\ FetchedText(call.items[i]) # None =>
                         /\ after.raw_content = FetchedText(call.items[i])
                         /\ after.content_error = None

\* C13: the selection of an enrich call is exactly the stored items of its kind
\* with absent content and a publish time at or after the cutoff, most recent
\* first; with a cap m >= 0 it is the m most recent of them (all, if fewer).
C13_SelectionIsCapped ==
    call.fn \in EnrichPhases =>
        LET missing == Missing(call.table, PhaseKind(call.fn), call.cutoff)
            items == call.items
        IN  /\ \A i \in DOMAIN items : items[i] \in missing
            /\ \A i, j \in DOMAIN items :
                   i < j => items[i] # items[j] /\ items[i].published_at >= items[j].published_at
            /\ call.cap = NoCap => Len(items) = Cardinality(missing)
            /\ call.cap # NoCap =>
                   /\ Len(items) = Min(call.cap, Cardinality(missing))
                   /\ \A row \in missing \ Range(items) :
                          \A i \in DOMAIN items : items[i].published_at >= row.published_at

\* What a strategy of the resolver finds for a call: an id, None, or "raise".
Finding(strategy) ==
    CASE strategy = "direct" -> try_extract_channel_id_from_text(call.channel_input)
      [] strategy = "profile" ->
            IF to_channel_url(call.channel_input) = "raise" THEN "raise"
            ELSE call.network.profile
      [] strategy = "videos" -> call.network.videos
      [] OTHER -> call.network.oembed

\* C14: an error inside one strategy of the resolver counts as not-found for that
\* strategy only: the call returns the id of the first strategy that finds one,
\* and it raises only after all four strategies found nothing, with the error
\* that names the reference.
C14_StrategyErrorIsNotFound ==
    (call.fn = "resolve_channel_id" /\ call.channel_input # "") =>
        LET found == {i \in 1..4 : Finding(Strategies[i]) \notin {None, "raise"}}
        IN  IF found = {}
            THEN /\ call.out.raised
                 /\ call.out.exc = "Could not resolve channel ID"
                 /\ call.out.reference = call.channel_input
                 /\ call.out.invoked = Strategies
            ELSE /\ ~call.out.raised
                 /\ \E i \in found : /\ \A j \in found : i <= j
                                     /\ call.out.id = Finding(Strategies[i])

\* C15: the resolver invokes its strategies in the order direct, profile page,
\* videos sub-page, embed-info, each at most once; it returns the id of the first
\* one that finds an id and invokes none after it; a reference that the first
\* three do not find and embed-info does find resolves to the embed-info id.
C15_FirstFindingWins ==
    call.fn = "resolve_channel_id" =>
        LET invoked == call.out.invoked
        IN  /\ Len(invoked) <= 4
            /\ invoked = SubSeq(Strategies, 1, Len(invoked))
            /\ \A i \in 1..(Len(invoked) - 1) : Finding(invoked[i]) = None
            /\ ~call.out.raised =>
                   /\ invoked # <<>>
                   /\ Finding(invoked[Len(invoked)]) \notin {None, "raise"}
                   /\ call.out.id = Finding(invoked[Len(invoked)])
            /\ (/\ call.channel_input # ""
                /\ \A i \in 1..3 : Finding(Strategies[i]) = None
                /\ Finding("oembed") \notin {None, "raise"}) =>
                   /\ ~call.out.raised
                   /\ call.out.id = call.network.oembed
                   /\ invoked = Strategies

\* C15 witness: a handle that the profile page and the videos sub-page do not
\* resolve and the embed-info endpoint does.
C15_Witness ==
    /\ call.fn = "resolve_channel_id"
    /\ call.channel_input = "@h"
    /\ call.network = [profile |-> None, videos |-> None, oembed |-> "UCy"]
    /\ call.out.id = "UCy"
    /\ call.out.invoked = Strategies

\* C16: get_video_transcript never raises, whatever the transcript library does,
\* and of the pair (content, error) it returns at most one is not None.
C16_TranscriptNeverRaises ==
    call.fn = "get_video_transcript" =>
        /\ ~call.out.raised
        /\ call.out.content = None \/ call.out.error = None

\* C16 witness: a call in which the preferred fetch and the listing both raised.
C16_Witness ==
    /\ call.fn = "get_video_transcript"
    /\ call.api.module = "fetch"
    /\ call.api.preferred = "raise"
    /\ call.api.listing.raised
    /\ call.out.content = None
    /\ call.out.error # None

\* The positions of a listing whose fetch yields a text.
WithText(listing, generated) ==
    {i \in 1..Len(listing) : /\ listing[i].is_generated = generated
                              /\ listing[i].fetch \notin {"raise", ""}}

\* C17: after a failed preferred fetch the fallback returns the text of the first
\* human-authored transcript, in listing order, that yields a non-empty text,
\* and only when there is none that of the first auto-generated one.
C17_ManualBeforeGenerated ==
    (/\ call.fn = "get_video_transcript"
     /\ call.api.module = "fetch"
     /\ call.api.preferred = "raise"
     /\ ~call.api.listing.raised) =>
        LET listing == call.api.listing.transcripts
            manual == WithText(listing, FALSE)
            generated == WithText(listing, TRUE)
            first == IF manual # {} THEN manual ELSE generated
        IN  first # {} =>
               /\ call.out.error = None
               /\ \E i \in first : /\ \A j \in first : i <= j
                                    /\ call.out.content = listing[i].fetch

\* C17 witness: an auto-generated transcript with a text listed before a
\* human-authored one with another text.
C17_Witness ==
    /\ call.fn = "get_video_transcript"
    /\ call.api.module = "fetch"
    /\ call.api.preferred = "raise"
    /\ call.api.listing.transcripts = <<[is_generated |-> TRUE, fetch |-> "ta"],
                                        [is_generated |-> FALSE, fetch |-> "tb"]>>
    /\ call.out.content = "tb"

\* C18: when the preferred fetch fails and the fallback yields no text (the
\* listing fails, every listed fetch raises or is empty, or nothing is listed),
\* the call returns no content and the error of the preferred fetch.
C18_PreferredErrorIsKept ==
    (/\ call.fn = "get_video_transcript"
     /\ call.api.module = "fetch"
     /\ call.api.preferred = "raise"
     /\ \A i \in DOMAIN call.api.listing.transcripts :
            call.api.listing.transcripts[i].fetch \in {"raise", ""}) =>
        /\ ~call.out.raised
        /\ call.out.content = None
        /\ call.out.error = "preferred_error"

\* The entries of a collector call an item can come from: the timestamp is there
\* and parses, and a channel-feed entry yields a video id.
Usable(entry) ==
    /\ EntryTimestamp(entry) \notin {NoTime, BadTime}
    /\ call.collector = "youtube" =>
           (entry.yt_videoid # None \/ extract_video_id(entry.link) # None)

\* C19: each collector emits an entry only if its publish timestamp is at or
\* after now - lookbackHours: every emitted item is a served entry with such a
\* timestamp, and a call without cap that reads its whole feed emits every usable
\* entry stamped exactly at the cutoff or later, none stamped earlier.
C19_CutoffIsInclusive ==
    call.fn = "collect" =>
        LET entries == call.feed.entries
            cutoff == now - call.lookback_hours
            whole == /\ call.feed.ok
                     /\ call.cap = NoCap
                     /\ \A i \in DOMAIN entries : ~ParseRaises(entries[i])
        IN  /\ \A k \in DOMAIN call.items :
                   /\ call.items[k].published_at >= cutoff
                   /\ \E i \in DOMAIN entries :
                          /\ Usable(entries[i])
                          /\ entries[i].link = call.items[k].url
                          /\ EntryTimestamp(entries[i]) = call.items[k].published_at
            /\ whole =>
                   \A i \in DOMAIN entries :
                       (Usable(entries[i]) /\ EntryTimestamp(entries[i]) >= cutoff) =>
                           \E k \in DOMAIN call.items :
                               /\ call.items[k].url = entries[i].link
                               /\ call.items[k].published_at = EntryTimestamp(entries[i])

\* C19 witness: a collector served an entry stamped one hour before the cutoff
\* and one stamped exactly at it has emitted the second alone.
C19_Witness ==
    /\ call.fn = "collect"
    /\ call.cap = NoCap
    /\ Len(call.feed.entries) = 2
    /\ call.feed.entries[1].published = now - call.lookback_hours - 1
    /\ call.feed.entries[2].published = now - call.lookback_hours
    /\ Len(call.items) = 1
    /\ call.items[1].published_at = now - call.lookback_hours

\* C20: an entry whose timestamp is absent or cannot be parsed is skipped: a
\* collector whose feed was fetched neither fails nor reports an error, and
\* without cap it still emits every usable in-window entry of the feed.
C20_BadTimestampIsSkipped ==
    (call.fn = "collect" /\ call.feed.ok) =>
        LET entries == call.feed.entries
            cutoff == now - call.lookback_hours
        IN  /\ ~call.raised
            /\ call.error = None
            /\ call.cap = NoCap =>
                   \A i \in DOMAIN entries :
                       (Usable(entries[i]) /\ EntryTimestamp(entries[i]) >= cutoff) =>
                           \E k \in DOMAIN call.items :
                               /\ call.items[k].url = entries[i].link
                               /\ call.items[k].published_at = EntryTimestamp(entries[i])

\* An entry of a collector call that is usable and inside the window.
InWindowEntry(entry) ==
    /\ Usable(entry)
    /\ EntryTimestamp(entry) >= now - call.lookback_hours

\* C21: with a cap c >= 0 a collector emits at most c items from a feed or
\* channel, and from a feed it reads without fault exactly the first c in-window
\* entries in feed order (all of them when there are fewer).
C21_CapBoundsEachFeed ==
    (call.fn = "collect" /\ call.cap # NoCap) =>
        LET expected == SelectSeq(call.feed.entries, InWindowEntry)
            whole == /\ call.feed.ok
                     /\ \A i \in DOMAIN call.feed.entries : ~ParseRaises(call.feed.entries[i])
        IN  /\ Len(call.items) <= call.cap
            /\ whole =>
                   /\ Len(call.items) = Min(call.cap, Len(expected))
                   /\ \A k \in DOMAIN call.items :
                          /\ call.items[k].url = expected[k].link
                          /\ call.items[k].published_at = EntryTimestamp(expected[k])

C23_NoActiveChannelNoCalls ==
    [][\A r \in Runs :
          /\ (pc[r] = "youtube" /\ ~\E c \in youtube_channels : c.active) =>
                 /\ pc'[r] = "openai"
                 /\ inserted'[r] = 0
                 /\ new'[r] = <<>>
                 /\ todo'[r] = <<>>
                 /\ results'[r] = <<>>
                 /\ served'[r] = 0
                 /\ last_fetch'[r].source = None
          /\ pc'[r] = "collect_videos" => \E c \in youtube_channels : c.active]_vars

\* C23 witness: an Ingest run without active channels has gone through the feed
\* phases, inserted an item from them and committed.
C23_Witness ==
    /\ ~\E c \in youtube_channels : c.active
    /\ kind["A"] = "ingest"
    /\ pc["A"] = "idle"
    /\ outcome["A"] = "committed"
    /\ inserted["A"] > 0

FeedKinds == {"openai", "anthropic"}

\* C24: in an Ingest run without fetch_markdown no feed item gets a body and no
\* body fetch can fail the run: every feed row the run adds has raw_content
\* absent, and a run that was served a single in-window feed entry whose url is
\* not stored inserts exactly that one row, without body.
C24_NoBodyWithoutFetch ==
    \A r \in Runs :
        (kind[r] = "ingest" /\ ~fetch_markdown[r] /\ (pc[r] # "idle" \/ outcome[r] # "none")) =>
            /\ \A i \in DOMAIN new[r] :
                   new[r][i].source_type \in FeedKinds => new[r][i].raw_content = None
            /\ run_exc[r] # "ConversionError"
            /\ (pc[r] = "idle" /\ outcome[r] = "committed") =>
                   /\ \A row \in articles \ before[r] :
                          row.source_type \in FeedKinds => row.raw_content = None
                   /\ (/\ served[r] = 1
                       /\ ~\E c \in youtube_channels : c.active
                       /\ \A u \in FeedUrls : ~FoundByUrl(before[r], u)) =>
                          /\ inserted[r] = 1
                          /\ Cardinality(articles \ before[r]) = 1
                          /\ before[r] \subseteq articles

\* C24 witness: a run without fetch_markdown that was served one in-window
\* feed-b entry has committed one row without body.
C24_Witness ==
    /\ kind["A"] = "ingest"
    /\ ~fetch_markdown["A"]
    /\ pc["A"] = "idle"
    /\ outcome["A"] = "committed"
    /\ served["A"] = 1
    /\ inserted["A"] = 1
    /\ \E row \in articles \ before["A"] :
          row.source_type = "anthropic" /\ row.raw_content = None

CrudCalls == {"create_youtube_channel", "set_youtube_channel_active", "delete_youtube_channel"}

\* C25: over any sequence of registrations, activations and removals there is at
\* most one row per reference; registering a reference that has a row returns
\* that row and changes nothing; only set-active changes a row's flag and only a
\* removal makes a row disappear.
C25_ChannelRegistry ==
    /\ \A a, b \in youtube_channels : a.channel_input = b.channel_input => a = b
    /\ call.fn \in CrudCalls =>
           LET old == ChannelRows(call.table, call.channel_input)
           IN  /\ (call.fn = "create_youtube_channel" /\ old # {}) =>
                      /\ call.rows = old
                      /\ youtube_channels = call.table
               /\ (call.fn = "create_youtube_channel" /\ old = {}) =>
                      /\ call.rows = {YoutubeChannel(call.channel_input, call.active)}
                      /\ youtube_channels = call.table \cup call.rows
               /\ call.fn # "set_youtube_channel_active" =>
                      \A a \in call.table, b \in youtube_channels :
                          a.channel_input = b.channel_input => a.active = b.active
               /\ call.fn # "delete_youtube_channel" =>
                      \A a \in call.table : ChannelRows(youtube_channels, a.channel_input) # {}
               /\ \A a \in call.table :
                      a.channel_input # call.channel_input => a \in youtube_channels

\* C25 witness: a reference registered inactive has been registered again as
\* active and is still there, inactive.
C25_Witness ==
    /\ call.fn = "create_youtube_channel"
    /\ call.active
    /\ YoutubeChannel(call.channel_input, FALSE) \in call.table
    /\ call.rows = {YoutubeChannel(call.channel_input, FALSE)}
    /\ YoutubeChannel(call.channel_input, FALSE) \in youtube_channels

\* C26: an upsert of a candidate whose url is stored leaves the store as it was,
\* every field of the stored row included, whatever the candidate carries;
\* upsert_article reports 0 inserted and create_article returns the stored row.
C26_ConflictNeverOverwrites ==
    (call.fn \in {"upsert_article", "create_article"}
        /\ FoundByUrl(call.table, call.candidate.url)) =>
        /\ articles = call.table
        /\ call.fn = "upsert_article" => call.inserted = 0
        /\ call.fn = "create_article" =>
               call.rows = {row \in call.table : row.url = call.candidate.url}

\* C26 witness: a candidate with another title, another publish time, a summary
\* and a body has been upserted onto a stored row of its url that has no body.
C26_Witness ==
    /\ call.fn = "upsert_article"
    /\ call.candidate.title = "t2"
    /\ call.candidate.published_at = 2
    /\ call.candidate.summary = "d2"
    /\ call.candidate.raw_content = "body"
    /\ \E row \in articles : /\ row.url = call.candidate.url
                              /\ row.title = "t"
                              /\ row.published_at = 1
                              /\ row.raw_content = None

\* C27: an Enrich run whose queries succeed writes the result of the body fetch
\* back on every item it selects: each stored item without content inside the
\* window ends the run with its fetch timestamp set, and the run's updated count
\* is the number of those items over the three source kinds.
C27_EverySelectedItemIsWritten ==
    \A r \in Runs :
        (/\ kind[r] = "enrich"
         /\ pc[r] = "idle"
         /\ outcome[r] # "none"
         /\ run_exc[r] # "OperationalError"
         /\ max_items[r] = NoCap) =>
            LET selected == {row \in before[r] : /\ row.raw_content = None
                                                  /\ row.published_at >= now - lookback_hours[r]}
            IN  /\ updated[r] = Cardinality(selected)
                /\ \A row \in selected :
                       \E after \in articles : /\ after.url = row.url
                                                /\ after.content_fetched_at # NoTime

UnableToFetch == {"Unable to extract video_id from URL.", "Missing dependency: youtube-transcript-api"}

\* C28: a channel video selected for enrichment that has no video id, stored or
\* in its url, or that is enriched while the transcript library is missing,
\* ends the enrichment with an 'unable to fetch' error and no content.
C28_UnableToFetchIsRecorded ==
    call.fn = "enrich_youtube_articles" =>
        \A i \in DOMAIN call.items :
            LET item == call.items[i]
                no_id == item.video_id = None /\ extract_video_id(item.url) = None
            IN  (no_id \/ call.api.module = "missing") =>
                    \E after \in articles :
                        /\ after.url = item.url
                        /\ after.content_error \in UnableToFetch
                        /\ no_id => after.content_error = "Unable to extract video_id from URL."
                        /\ after.raw_content = None

\* C28 witness: with the transcript library missing, a video whose url carries
\* no id and one whose url carries it have both been enriched and carry the two
\* errors.
C28_Witness ==
    /\ call.fn = "enrich_youtube_articles"
    /\ call.api.module = "missing"
    /\ Len(call.items) = 2
    /\ \E a, b \in articles :
          /\ a.url = "x0" /\ a.content_error = "Unable to extract video_id from URL."
          /\ b.url = "w1" /\ b.content_error = "Missing dependency: youtube-transcript-api"

\* The attributes of an item that are not body fields, the video id apart.
SameRecord(a, b) ==
    /\ a.url = b.url
    /\ a.source_type = b.source_type
    /\ a.source = b.source
    /\ a.title = b.title
    /\ a.published_at = b.published_at
    /\ a.summary = b.summary

\* What an enrich call leaves alone: it inserts and deletes nothing, and every
\* row that is of another kind, has content, is older than the cutoff or was not
\* among the selected items is in the store as it was.
EnrichFrame ==
    /\ {row.url : row \in articles} = {row.url : row \in call.table}
    /\ Cardinality(articles) = Cardinality(call.table)
    /\ \A row \in call.table \ Missing(call.table, PhaseKind(call.fn), call.cutoff) :
           row \in articles
    /\ \A row \in call.table :
           (~\E i \in DOMAIN call.items : call.items[i] = row) => row \in articles

\* C29 as stated: an enrichment inserts and deletes nothing, modifies no item it
\* did not select, and on a selected item changes the body fields only, not the
\* url, the title or the video id.
C29_OnlyBodyFieldsChange ==
    call.fn \in EnrichPhases =>
        /\ EnrichFrame
        /\ \A i \in DOMAIN call.items :
               \E after \in articles : /\ SameRecord(after, call.items[i])
                                        /\ after.video_id = call.items[i].video_id

\* C29 amended: as above, but a channel video stored without video id gets the
\* id extracted from its url when it is enriched.
C29_BodyFieldsAndVideoId ==
    call.fn \in EnrichPhases =>
        /\ EnrichFrame
        /\ \A i \in DOMAIN call.items :
               \E after \in articles :
                   /\ SameRecord(after, call.items[i])
                   /\ \/ after.video_id = call.items[i].video_id
                      \/ /\ call.items[i].source_type = "youtube"
                         /\ call.items[i].video_id = None
                         /\ after.video_id = extract_video_id(call.items[i].url)

\* C29 witness: an enrichment of channel videos with a cutoff that leaves the
\* older video out has written the video id and the fetch time on the newer one,
\* beside a feed item that has content.
C29_Witness ==
    /\ call.fn = "enrich_youtube"
    /\ call.cutoff = 1
    /\ Len(call.items) = 1
    /\ \E row \in articles : row.url = "w1s" /\ row.content_fetched_at = NoTime
    /\ \E row \in articles : row.source_type = "anthropic" /\ row.raw_content # None
    /\ \E row \in articles :
          /\ row.url = "w1"
          /\ row.video_id = "v1"
          /\ row.content_fetched_at = now

\* C30: over any sequence of committed upserts and enrichments no stored item
\* disappears, and an item that has content keeps exactly that content.
C30_ContentIsWriteOnce ==
    [][\A row \in articles :
          \E after \in articles' :
              /\ after.url = row.url
              /\ row.raw_content # None => after.raw_content = row.raw_content]_vars

\* C30 witness: a feed-b item stored with the content "body" has gone through an
\* enrichment of its kind whose converter would have answered another text, and
\* still has its content.
C30_Witness ==
    /\ call.fn = "enrich_anthropic"
    /\ ~call.raised
    /\ call.markdown["u1"] = "markdown"
    /\ \E row \in call.table : row.url = "u1" /\ row.raw_content = "body"
    /\ \E row \in articles : row.url = "u1" /\ row.raw_content = "body"

\* A channel video an enrichment has left without content and without error.
EnrichedEmpty(row) ==
    /\ row.source_type = "youtube"
    /\ row.raw_content = None
    /\ row.content_error = None
    /\ row.content_fetched_at # NoTime

\* C31: when the preferred fetch succeeds with an empty text get_video_transcript
\* returns (None, None), whatever the listing holds; an item enriched with that
\* result has no content and no error; and an item so left is among the items
\* of every later enrichment whose window it is in.
C31_EmptyTranscriptIsReselected ==
    [][call'.fn = "enrich_youtube_articles" =>
          /\ (call'.api.module # "missing" /\ call'.api.preferred = "") =>
                 /\ call'.out = TranscriptResult(None, None)
                 /\ \A i \in DOMAIN call'.items :
                        extract_video_id(call'.items[i].url) # None =>
                            \E after \in articles' :
                                /\ after.url = call'.items[i].url
                                /\ EnrichedEmpty(after)
          /\ \A row \in articles :
                 (/\ EnrichedEmpty(row)
                  /\ row.published_at >= call'.cutoff
                  /\ call'.cap = NoCap) =>
                     \E i \in DOMAIN call'.items : call'.items[i] = row]_vars

\* C31 witness: a video left without content and error by an earlier enrichment
\* has been selected again, while the preferred fetch yields an empty text and
\* the listing holds a transcript with text, and is again without content and
\* error.
C31_Witness ==
    /\ call.fn = "enrich_youtube_articles"
    /\ call.api.module = "fetch"
    /\ call.api.preferred = ""
    /\ ~call.api.listing.raised
    /\ \E i \in DOMAIN call.items :
          /\ call.items[i].url = "w1"
          /\ EnrichedEmpty(call.items[i])
    /\ \E row \in articles : row.url = "w1" /\ EnrichedEmpty(row)
====
